---- MODULE Spec2Model ----
(***************************************************************************)
(* Model of the JSON extraction routine of the grading assistant           *)
(* (extractJson, src/unnamed/part_000 lines 10-70).                        *)
(*                                                                         *)
(* A JavaScript string is modelled as a sequence of one-character strings; *)
(* indices held in variables are the 0-based indices of the source.        *)
(***************************************************************************)
EXTENDS Integers, Sequences, FiniteSets, TLC

VARIABLES text, kind, obj, jsonString, firstBrace, i, braceCount, inString, escape,
          endIndex, branch, pc

\* the grade route handler (POST): which of the two handlers runs, its
\* environment and request, its position, its locals, and what went over the
\* wire (messages sent to the model, responses received, replies returned)
VARIABLES route, apiKey, request, hpc, respText, fixedJson, parsedResult,
          retryAttempted, sent, received, reply

\* the locals of each of several invocations of extractJson
VARIABLE frames

\* the state of the grading page and of its call of handleGrade
VARIABLES selectedModuleId, essayText, isLoading, result, error, responseOk,
          gradePc, calls

evars == <<text, kind, obj, jsonString, firstBrace, i, braceCount, inString, escape,
           endIndex, branch, pc>>

hvars == <<route, apiKey, request, hpc, respText, fixedJson, parsedResult,
           retryAttempted, sent, received, reply>>

\* what a step of extractJson leaves alone
pvars == <<selectedModuleId, essayText, isLoading, result, error, responseOk,
           gradePc, calls>>

otherVars == <<hvars, frames, pvars>>

vars == <<evars, otherVars>>

(***************************************************************************)
(* Bounds of the input domain.                                             *)
(***************************************************************************)
\* longest raw (unstructured) input
MaxRawLen == 5
\* most items (plain character, brace, escaped quote) in a JSON string value
MaxStrItems == 2
\* invocations of extractJson that run interleaved
NumCalls == 2
\* clicks on the grade button in one visit of the page
MaxClicks == 3

(***************************************************************************)
(* Characters.                                                             *)
(***************************************************************************)
OpenBrace == "{"
CloseBrace == "}"
Quote == "\""
Backslash == "\\"
WhiteSpace == {" ", "\n", "\r"}

\* The literal the scan compares the current character with at line 30.  The
\* source text is '\\\\': a JavaScript string of TWO backslash characters.
EscapeLiteral == <<Backslash, Backslash>>

(***************************************************************************)
(* String primitives of the JavaScript runtime, as extractJson uses them.  *)
(***************************************************************************)
Min(a, b) == IF a <= b THEN a ELSE b
Max(a, b) == IF a >= b THEN a ELSE b

\* jsonString[k]: the one-character string at 0-based index k
CharAt(s, k) == <<s[k + 1]>>

RECURSIVE TrimStart(_)
TrimStart(s) ==
    IF s # <<>> /\ s[1] \in WhiteSpace THEN TrimStart(Tail(s)) ELSE s

RECURSIVE TrimEnd(_)
TrimEnd(s) ==
    IF s # <<>> /\ s[Len(s)] \in WhiteSpace
    THEN TrimEnd(SubSeq(s, 1, Len(s) - 1))
    ELSE s

\* a mutant of Trim: only leading whitespace is removed
TrimLeadingOnly(s) == TrimStart(s)

\* text.trim()
Trim(s) == TrimEnd(TrimStart(s))

\* s.indexOf(c): 0-based index of the first c, -1 when there is none
IndexOf(s, c) ==
    IF \E k \in 1..Len(s) : s[k] = c
    THEN (CHOOSE k \in 1..Len(s) : s[k] = c /\ \A j \in 1..(k - 1) : s[j] # c) - 1
    ELSE -1

\* s.lastIndexOf(c)
LastIndexOf(s, c) ==
    IF \E k \in 1..Len(s) : s[k] = c
    THEN (CHOOSE k \in 1..Len(s) : s[k] = c /\ \A j \in (k + 1)..Len(s) : s[j] # c) - 1
    ELSE -1

\* s.substring(a, b): both indices are clamped to 0..length and swapped when
\* a > b; the result holds the characters lo .. hi-1
Substring(s, a, b) ==
    LET ca == Max(0, Min(a, Len(s)))
        cb == Max(0, Min(b, Len(s)))
    IN  SubSeq(s, Min(ca, cb) + 1, Max(ca, cb))

(***************************************************************************)
(* The scan loop body (lines 23-50) as a function of the loop variables.   *)
(***************************************************************************)
ScanInit == [braceCount |-> 0, inString |-> FALSE, escape |-> FALSE,
             endIndex |-> -1, brk |-> FALSE]

\* a mutant of ScanStep: the break at line 47 is missing
ScanStepNoBreak(st, char, k) ==
    IF st.escape THEN [st EXCEPT !.escape = FALSE]
    ELSE IF char = EscapeLiteral THEN [st EXCEPT !.escape = TRUE]
    ELSE IF char = <<Quote>> THEN [st EXCEPT !.inString = ~st.inString]
    ELSE IF ~st.inString
         THEN IF char = <<OpenBrace>>
              THEN [st EXCEPT !.braceCount = st.braceCount + 1]
              ELSE IF char = <<CloseBrace>>
                   THEN IF st.braceCount - 1 = 0
                        THEN [st EXCEPT !.braceCount = 0, !.endIndex = k]
                        ELSE [st EXCEPT !.braceCount = st.braceCount - 1]
                   ELSE st
         ELSE st

\* one iteration on the character char at index k; brk: the loop was left
ScanStep(st, char, k) ==
    IF st.escape THEN [st EXCEPT !.escape = FALSE]
    ELSE IF char = EscapeLiteral THEN [st EXCEPT !.escape = TRUE]
    ELSE IF char = <<Quote>> THEN [st EXCEPT !.inString = ~st.inString]
    ELSE IF ~st.inString
         THEN IF char = <<OpenBrace>>
              THEN [st EXCEPT !.braceCount = st.braceCount + 1]
              ELSE IF char = <<CloseBrace>>
                   THEN IF st.braceCount - 1 = 0
                        THEN [st EXCEPT !.braceCount = 0, !.endIndex = k,
                                        !.brk = TRUE]
                        ELSE [st EXCEPT !.braceCount = st.braceCount - 1]
                   ELSE st
         ELSE st

\* the whole loop of line 22, from index k on
RECURSIVE ScanFrom(_, _, _)
ScanFrom(s, k, st) ==
    IF k >= Len(s) \/ st.brk THEN st
    ELSE ScanFrom(s, k + 1, ScanStep(st, CharAt(s, k), k))

(***************************************************************************)
(* Lines 53-66: the string returned once the loop is over.                 *)
(***************************************************************************)
FinishBranch(js, end) ==
    IF end # -1 THEN "complete"
    ELSE IF LastIndexOf(js, CloseBrace) # -1 THEN "fallback" ELSE "nolast"

\* a mutant of FinishString: without a closing brace the text is cut at the
\* first opening brace
FinishStringCutProse(js, first, end) ==
    IF end # -1 THEN Substring(js, first, end + 1)
    ELSE LET lastBrace == LastIndexOf(js, CloseBrace)
         IN  IF lastBrace # -1 THEN Substring(js, first, lastBrace + 1)
             ELSE Substring(js, first, Len(js))

\* a mutant of FinishString: the fallback starts at the last opening brace
FinishStringLastOpen(js, first, end) ==
    IF end # -1 THEN Substring(js, first, end + 1)
    ELSE LET lastBrace == LastIndexOf(js, CloseBrace)
         IN  IF lastBrace # -1
             THEN Substring(js, LastIndexOf(js, OpenBrace), lastBrace + 1)
             ELSE js

\* a mutant of FinishString: the complete object is returned without its
\* delimiting braces
FinishStringInner(js, first, end) ==
    IF end # -1 THEN Substring(js, first + 1, end)
    ELSE LET lastBrace == LastIndexOf(js, CloseBrace)
         IN  IF lastBrace # -1 THEN Substring(js, first, lastBrace + 1)
             ELSE js

FinishString(js, first, end) ==
    IF end # -1 THEN Substring(js, first, end + 1)
    ELSE LET lastBrace == LastIndexOf(js, CloseBrace)
         IN  IF lastBrace # -1 THEN Substring(js, first, lastBrace + 1)
             ELSE js

\* extractJson as a function of its argument
ExtractJson(t) ==
    LET js == Trim(t)
        fb == IndexOf(js, OpenBrace)
    IN  IF fb # -1
        THEN FinishString(js, fb, ScanFrom(js, fb, ScanInit).endIndex)
        ELSE js

(***************************************************************************)
(* cleanAndParse of the grade route (src/unnamed/part_001 lines 153-162):  *)
(* the text it hands to JSON.parse.                                        *)
(***************************************************************************)
\* the backtick character (a backtick cannot be written in a TLA+ string)
Backtick == "'"
Fence == <<Backtick, Backtick, Backtick>>
FenceJson == Fence \o <<"j", "s", "o", "n">>

\* s.startsWith(p)
StartsWith(s, p) == Len(s) >= Len(p) /\ SubSeq(s, 1, Len(p)) = p
EndsWith(s, p) == Len(s) >= Len(p) /\ SubSeq(s, Len(s) - Len(p) + 1, Len(s)) = p

\* s.replace(/^p\s*/, ''): p at the start and the whitespace after it
StripOpening(s, p) ==
    IF StartsWith(s, p) THEN TrimStart(SubSeq(s, Len(p) + 1, Len(s))) ELSE s

\* s.replace(/\s*```$/, ''): a fence at the very end and the whitespace before it
StripClosing(s) ==
    IF EndsWith(s, Fence) THEN TrimEnd(SubSeq(s, 1, Len(s) - Len(Fence))) ELSE s

\* lines 154-160: the value of cleaned
CleanFence(responseText) ==
    IF StartsWith(responseText, FenceJson)
    THEN StripClosing(StripOpening(responseText, FenceJson))
    ELSE IF StartsWith(responseText, Fence)
         THEN StripClosing(StripOpening(responseText, Fence))
         ELSE responseText

(***************************************************************************)
(* Input domain: raw strings, and well-formed JSON objects between prose.  *)
(* A generated value carries what it contains: esc (an escaped quote in a  *)
(* string value), brace (a literal brace in a string value), nested (an    *)
(* object or array as a field value).                                      *)
(***************************************************************************)
RawAlphabet == {OpenBrace, CloseBrace, Quote, Backslash, " ", "a"}

RECURSIVE SeqsUpTo(_, _)
SeqsUpTo(S, n) ==
    IF n = 0 THEN {<<>>}
    ELSE LET shorter == SeqsUpTo(S, n - 1)
         IN  shorter \cup {Append(s, c) : s \in shorter, c \in S}

RawInputs == SeqsUpTo(RawAlphabet, MaxRawLen)

Piece(s, e, b, n) == [s |-> s, esc |-> e, brace |-> b, nested |-> n]
Cat(p, q) == Piece(p.s \o q.s, p.esc \/ q.esc, p.brace \/ q.brace,
                   p.nested \/ q.nested)
Lit(s) == Piece(s, FALSE, FALSE, FALSE)
AsNested(p) == [p EXCEPT !.nested = TRUE]

StrItems == {Lit(<<"a">>),
             Piece(<<OpenBrace>>, FALSE, TRUE, FALSE),
             Piece(<<CloseBrace>>, FALSE, TRUE, FALSE),
             Piece(<<Backslash, Quote>>, TRUE, FALSE, FALSE)}

RECURSIVE StrBodies(_)
StrBodies(n) ==
    IF n = 0 THEN {Lit(<<>>)}
    ELSE LET shorter == StrBodies(n - 1)
         IN  shorter \cup {Cat(b, it) : b \in shorter, it \in StrItems}

JsonStrings == {Cat(Lit(<<Quote>>), Cat(b, Lit(<<Quote>>))) : b \in StrBodies(MaxStrItems)}

Member(key, v) == Cat(Lit(<<Quote, key, Quote, ":">>), v)
ObjectOf(body) == Cat(Lit(<<OpenBrace>>), Cat(body, Lit(<<CloseBrace>>)))
ArrayOf(body) == Cat(Lit(<<"[">>), Cat(body, Lit(<<"]">>)))

SmallNested == {ObjectOf(Lit(<<>>)), ArrayOf(Lit(<<>>)), ArrayOf(Lit(<<"1">>)),
                ObjectOf(Member("k", Lit(<<"1">>)))}

NestedValues ==
    SmallNested \cup {ObjectOf(Member("k", s)) : s \in JsonStrings}
                \cup {ArrayOf(s) : s \in JsonStrings}

JsonObjects ==
    {ObjectOf(Lit(<<>>))}
    \cup {ObjectOf(Member("k", v)) : v \in JsonStrings \cup {Lit(<<"1">>)}}
    \cup {AsNested(ObjectOf(Member("k", v))) : v \in NestedValues}
    \cup {AsNested(ObjectOf(Cat(Member("k", v), Cat(Lit(<<",">>), Member("j", s))))) :
            v \in SmallNested, s \in JsonStrings}
    \cup {AsNested(ObjectOf(Cat(Member("k", s), Cat(Lit(<<",">>), Member("j", v))))) :
            v \in SmallNested, s \in JsonStrings}

\* prose without braces
Prefixes == {<<>>, <<" ">>, <<"a", " ">>, <<Quote, "a">>}
Suffixes == {<<>>, <<" ">>, <<" ", "a">>, <<"a", Quote>>}

NoObject == Lit(<<>>)

\* whitespace a response may carry around its markdown fence
FencePadding == {<<>>, <<"\n">>}
\* x in a markdown fence, opened by the marker f
Fenced(f, x, w1, w2) == w1 \o f \o <<"\n">> \o x \o <<"\n">> \o Fence \o w2

\* the invocations of extractJson
Calls == 1..NumCalls

\* lines 10-20: the locals of an invocation on the argument t
FrameInit(t) ==
    [text |-> t, jsonString |-> t, firstBrace |-> -1, i |-> 0,
     braceCount |-> ScanInit.braceCount, inString |-> ScanInit.inString,
     escape |-> ScanInit.escape, endIndex |-> ScanInit.endIndex, pc |-> "start"]

\* no interleaved invocation is running
FramesIdle == [p \in Calls |-> [FrameInit(<<>>) EXCEPT !.pc = "idle"]]

\* part_000 lines 101-105: the page as it is constructed
PageIdle ==
    /\ selectedModuleId = 1
    /\ essayText = <<>>
    /\ isLoading = FALSE
    /\ result = "null"
    /\ error = "null"
    /\ responseOk = FALSE
    /\ gradePc = "idle"
    /\ calls = 0

\* a request whose body request.json() rejects
InvalidBody == [valid |-> FALSE, moduleKnown |-> FALSE, essayIsString |-> FALSE]

\* no request is being handled
HandlerIdle ==
    /\ route = "none"
    /\ apiKey = FALSE
    /\ request = InvalidBody
    /\ hpc = "idle"
    /\ respText = <<>>
    /\ fixedJson = <<>>
    /\ parsedResult = "undefined"
    /\ retryAttempted = FALSE
    /\ sent = 0
    /\ received = <<>>
    /\ reply = <<>>

(***************************************************************************)
(* The state machine: one call of extractJson.                             *)
(***************************************************************************)
Init ==
    /\ \/ /\ text \in RawInputs
          /\ kind = "raw"
          /\ obj = NoObject
       \/ \E p \in Prefixes, x \in JsonObjects, s \in Suffixes :
             /\ text = p \o x.s \o s
             /\ kind = "embedded"
             /\ obj = x
       \/ \E x \in JsonObjects :
             \E n \in 1..(Len(x.s) - 1) :
                /\ text = SubSeq(x.s, 1, n)
                /\ kind = "truncated"
                /\ obj = x
       \/ \E x \in JsonObjects, f \in {FenceJson, Fence} :
             \E w1 \in FencePadding, w2 \in FencePadding :
                /\ text = Fenced(f, x.s, w1, w2)
                /\ kind = "fenced"
                /\ obj = x
    /\ jsonString = text
    /\ firstBrace = -1
    /\ i = 0
    /\ braceCount = 0
    /\ inString = FALSE
    /\ escape = FALSE
    /\ endIndex = -1
    /\ branch = "none"
    /\ pc = "start"
    /\ HandlerIdle
    /\ frames = FramesIdle
    /\ PageIdle

\* lines 11-20 (and 67-69 when there is no opening brace)
Begin ==
    /\ pc = "start"
    /\ jsonString' = Trim(text)
    /\ firstBrace' = IndexOf(jsonString', OpenBrace)
    /\ IF firstBrace' # -1
       THEN /\ i' = firstBrace'
            /\ pc' = "loop"
            /\ branch' = branch
       ELSE /\ i' = i
            /\ pc' = "done"
            /\ branch' = "nobrace"
    /\ braceCount' = ScanInit.braceCount
    /\ inString' = ScanInit.inString
    /\ escape' = ScanInit.escape
    /\ endIndex' = ScanInit.endIndex
    /\ UNCHANGED otherVars
    /\ UNCHANGED <<text, kind, obj>>

\* a mutant of LoopStep: the index is not advanced when the iteration ends in
\* a continue (lines 27, 32, 37)
LoopStepStuck ==
    /\ pc = "loop"
    /\ i < Len(jsonString)
    /\ LET st == ScanStep([braceCount |-> braceCount, inString |-> inString,
                           escape |-> escape, endIndex |-> endIndex,
                           brk |-> FALSE],
                          CharAt(jsonString, i), i)
       IN  /\ braceCount' = st.braceCount
           /\ inString' = st.inString
           /\ escape' = st.escape
           /\ endIndex' = st.endIndex
           /\ IF st.brk
              THEN /\ pc' = "after"
                   /\ i' = i
              ELSE /\ pc' = "loop"
                   /\ i' = IF CharAt(jsonString, i) = <<Quote>> THEN i ELSE i + 1
    /\ UNCHANGED otherVars
    /\ UNCHANGED <<text, kind, obj, jsonString, firstBrace, branch>>

\* lines 22-51: one iteration of the loop
LoopStep ==
    /\ pc = "loop"
    /\ i < Len(jsonString)
    /\ LET st == ScanStep([braceCount |-> braceCount, inString |-> inString,
                           escape |-> escape, endIndex |-> endIndex,
                           brk |-> FALSE],
                          CharAt(jsonString, i), i)
       IN  /\ braceCount' = st.braceCount
           /\ inString' = st.inString
           /\ escape' = st.escape
           /\ endIndex' = st.endIndex
           /\ IF st.brk
              THEN /\ pc' = "after"
                   /\ i' = i
              ELSE /\ pc' = "loop"
                   /\ i' = i + 1
    /\ UNCHANGED otherVars
    /\ UNCHANGED <<text, kind, obj, jsonString, firstBrace, branch>>

\* line 22: the loop condition fails
LoopExit ==
    /\ pc = "loop"
    /\ i >= Len(jsonString)
    /\ pc' = "after"
    /\ UNCHANGED otherVars
    /\ UNCHANGED <<text, kind, obj, jsonString, firstBrace, i, braceCount, inString,
                   escape, endIndex, branch>>

\* lines 53-69
Finish ==
    /\ pc = "after"
    /\ jsonString' = FinishString(jsonString, firstBrace, endIndex)
    /\ branch' = FinishBranch(jsonString, endIndex)
    /\ pc' = "done"
    /\ UNCHANGED otherVars
    /\ UNCHANGED <<text, kind, obj, firstBrace, i, braceCount, inString, escape,
                   endIndex>>

Next == Begin \/ LoopStep \/ LoopExit \/ Finish

Spec == Init /\ [][Next]_vars

(***************************************************************************)
(* The grade route handler POST.  route = "retry" is the handler of         *)
(* src/unnamed/part_001 (cleanAndParse, one retry); route = "first" is the  *)
(* handler of src/grade-assist/src/routes/api/grade/+server.ts (first/last  *)
(* brace, newline repair, no retry).                                        *)
(***************************************************************************)
\* the texts JSON.parse accepts, up to whitespace around them: the objects of
\* JsonObjects, objects whose string value holds an escaped line break, and
\* objects with a line break between their tokens
ValidJsonTexts ==
    {x.s : x \in JsonObjects}
    \cup UNION {{<<OpenBrace, Quote, "k", Quote, ":", Quote, "a", Backslash, e, Quote,
                   CloseBrace>>,
                 <<OpenBrace, Quote, "k", Quote, ":", Quote, Backslash, Quote,
                   Backslash, e, Quote, CloseBrace>>} : e \in {"n", "r"}}
    \cup {<<OpenBrace, c, Quote, "k", Quote, ":", Quote, "a", Quote, CloseBrace>> :
            c \in {"\n", "\r"}}

\* JSON.parse accepts s (whitespace around the value is allowed)
JsonParses(s) == Trim(s) \in ValidJsonTexts

\* the value JSON.parse returns, written as its canonical text
JsonValue(s) == Trim(s)

\* +server.ts lines 123-130: the candidate of the first handler
FirstRouteCandidate(t) ==
    LET js == Trim(t)
        first == IndexOf(js, OpenBrace)
        last == LastIndexOf(js, CloseBrace)
    IN  IF first # -1 /\ last # -1 THEN Substring(js, first, last + 1) ELSE js

\* p1.replace(/\n/g, '\\n').replace(/\r/g, '\\r')
RECURSIVE EscapeNewlines(_)
EscapeNewlines(s) ==
    IF s = <<>> THEN <<>>
    ELSE (IF Head(s) = "\n" THEN <<Backslash, "n">>
          ELSE IF Head(s) = "\r" THEN <<Backslash, "r">>
          ELSE <<Head(s)>>) \o EscapeNewlines(Tail(s))

\* +server.ts lines 140-142: jsonString.replace(/"([^"]*)"/g, ...): every quote
\* is paired with the next quote, and newlines between the two are escaped
RECURSIVE FixedJson(_)
FixedJson(s) ==
    LET q1 == IndexOf(s, Quote)
    IN  IF q1 = -1 THEN s
        ELSE LET rest == SubSeq(s, q1 + 2, Len(s))
                 q2 == IndexOf(rest, Quote)
             IN  IF q2 = -1 THEN s
                 ELSE SubSeq(s, 1, q1 + 1) \o EscapeNewlines(SubSeq(rest, 1, q2))
                      \o <<Quote>> \o FixedJson(SubSeq(rest, q2 + 2, Len(rest)))

\* the text each handler hands to JSON.parse
ParserInput(r, t) ==
    IF r = "retry" THEN CleanFence(t) ELSE FixedJson(FirstRouteCandidate(t))

\* the replies of the handlers
MissingKeyReply == [status |-> 500, error |-> "Missing GOOGLE_API_KEY"]
ModuleNotFoundReply == [status |-> 404, error |-> "Module not found"]
FailedReply == [status |-> 500, error |-> "Failed to grade essay",
                details |-> "exception"]
SuccessReply(value) == [status |-> 200, body |-> value]
ParseFailedReply(r, raw) ==
    IF r = "retry"
    THEN [status |-> 500, error |-> "Failed to parse grading result",
          details |-> "parse error", rawResponse |-> raw, retryAttempted |-> TRUE]
    ELSE [status |-> 500, error |-> "Failed to parse grading result",
          details |-> "parse error", rawResponse |-> raw]

\* requests: a body request.json() rejects, or a body with a moduleId that is
\* known or not and an essayText that is a string or not
Requests ==
    {InvalidBody} \cup [valid : {TRUE}, moduleKnown : BOOLEAN, essayIsString : BOOLEAN]

\* model responses: objects, bare or padded or fenced or cut off, and prose
SampleObjects ==
    {ObjectOf(Lit(<<>>)).s}
    \cup {ObjectOf(Member("k", Cat(Lit(<<Quote>>), Cat(b, Lit(<<Quote>>))))).s :
            b \in StrBodies(1)}

\* objects with a literal line break: inside a string value, inside a string
\* value after an escaped quote, and between the tokens of the object
BrokenLineObjects ==
    UNION {{<<OpenBrace, Quote, "k", Quote, ":", Quote, "a", c, Quote, CloseBrace>>,
            <<OpenBrace, Quote, "k", Quote, ":", Quote, Backslash, Quote, c, Quote,
              CloseBrace>>,
            <<OpenBrace, c, Quote, "k", Quote, ":", Quote, "a", Quote, CloseBrace>>} :
              c \in {"\n", "\r"}}

Responses ==
    SampleObjects
    \cup {<<" ">> \o x \o <<"\n">> : x \in SampleObjects}
    \cup {Fenced(f, x, w1, w2) : f \in {FenceJson, Fence}, x \in SampleObjects,
                                 w1 \in FencePadding, w2 \in FencePadding}
    \cup UNION {{SubSeq(x, 1, n) : n \in 1..(Len(x) - 1)} : x \in SampleObjects}
    \cup UNION {{Fence \o <<"\n">> \o SubSeq(x, 1, n) : n \in 1..(Len(x) - 1)} :
                  x \in SampleObjects}
    \cup BrokenLineObjects
    \cup {<<>>, <<"a">>}

\* no call of extractJson is running
ExtractorIdle ==
    /\ text = <<>>
    /\ kind = "none"
    /\ obj = NoObject
    /\ jsonString = <<>>
    /\ firstBrace = -1
    /\ i = 0
    /\ braceCount = 0
    /\ inString = FALSE
    /\ escape = FALSE
    /\ endIndex = -1
    /\ branch = "none"
    /\ pc = "idle"

HInit ==
    /\ route \in {"first", "retry"}
    /\ apiKey \in BOOLEAN
    /\ request \in Requests
    /\ hpc = "entry"
    /\ respText = <<>>
    /\ fixedJson = <<>>
    /\ parsedResult = "undefined"
    /\ retryAttempted = FALSE
    /\ sent = 0
    /\ received = <<>>
    /\ reply = <<>>
    /\ ExtractorIdle
    /\ frames = FramesIdle
    /\ PageIdle

\* part_001 lines 12-17 (+server.ts 12-17): the key check, up to the await of
\* request.json()
HEnter ==
    /\ hpc = "entry"
    /\ IF ~apiKey
       THEN /\ reply' = Append(reply, MissingKeyReply)
            /\ hpc' = "done"
       ELSE /\ reply' = reply
            /\ hpc' = "body"
    /\ UNCHANGED <<route, apiKey, request, respText, fixedJson, parsedResult, retryAttempted,
                   sent, received>>
    /\ UNCHANGED <<evars, frames, pvars>>

\* part_001 lines 17-164 (+server.ts 17-116): the body is read, the words are
\* counted (part_001 line 20 only), the module is looked up, the chat is built
\* and the first message is sent
HBody ==
    /\ hpc = "body"
    /\ IF ~request.valid
       THEN /\ reply' = Append(reply, FailedReply)
            /\ hpc' = "done"
            /\ sent' = sent
       ELSE IF route = "retry" /\ ~request.essayIsString
       THEN /\ reply' = Append(reply, FailedReply)
            /\ hpc' = "done"
            /\ sent' = sent
       ELSE IF ~request.moduleKnown
       THEN /\ reply' = Append(reply, ModuleNotFoundReply)
            /\ hpc' = "done"
            /\ sent' = sent
       ELSE /\ reply' = reply
            /\ hpc' = "await1"
            /\ sent' = sent + 1
    /\ UNCHANGED <<route, apiKey, request, respText, fixedJson, parsedResult, retryAttempted,
                   received>>
    /\ UNCHANGED <<evars, frames, pvars>>

\* a mutant of HFirstResponse: the retry is sent whether or not the first
\* response parsed
HFirstResponseAlwaysRetries ==
    /\ hpc = "await1"
    /\ \E t \in Responses :
          /\ received' = Append(received, t)
          /\ respText' = t
          /\ fixedJson' = ParserInput(route, t)
          /\ IF route = "retry"
             THEN /\ retryAttempted' = TRUE
                  /\ sent' = sent + 1
                  /\ hpc' = "await2"
                  /\ UNCHANGED <<parsedResult, reply>>
             ELSE IF JsonParses(ParserInput(route, t))
             THEN /\ parsedResult' = JsonValue(ParserInput(route, t))
                  /\ reply' = Append(reply, SuccessReply(parsedResult'))
                  /\ hpc' = "done"
                  /\ UNCHANGED <<retryAttempted, sent>>
             ELSE /\ reply' = Append(reply, ParseFailedReply(route, t))
                  /\ hpc' = "done"
                  /\ UNCHANGED <<parsedResult, retryAttempted, sent>>
    /\ UNCHANGED <<route, apiKey, request>>
    /\ UNCHANGED <<evars, frames, pvars>>

\* part_001 lines 164-182 (+server.ts 116-153): the first response arrives and
\* is parsed; on a parse failure part_001 sends the retry message
HFirstResponse ==
    /\ hpc = "await1"
    /\ \E t \in Responses :
          /\ received' = Append(received, t)
          /\ respText' = t
          /\ fixedJson' = ParserInput(route, t)
          /\ IF JsonParses(ParserInput(route, t))
             THEN /\ parsedResult' = JsonValue(ParserInput(route, t))
                  /\ reply' = Append(reply, SuccessReply(parsedResult'))
                  /\ hpc' = "done"
                  /\ UNCHANGED <<retryAttempted, sent>>
             ELSE IF route = "retry"
             THEN /\ retryAttempted' = TRUE
                  /\ sent' = sent + 1
                  /\ hpc' = "await2"
                  /\ UNCHANGED <<parsedResult, reply>>
             ELSE /\ reply' = Append(reply, ParseFailedReply(route, t))
                  /\ hpc' = "done"
                  /\ UNCHANGED <<parsedResult, retryAttempted, sent>>
    /\ UNCHANGED <<route, apiKey, request>>
    /\ UNCHANGED <<evars, frames, pvars>>

\* part_001 lines 164-166, 203-206 (+server.ts 116-118, 155-158): the first
\* model call, or reading its text, throws
HFirstThrows ==
    /\ hpc = "await1"
    /\ reply' = Append(reply, FailedReply)
    /\ hpc' = "done"
    /\ UNCHANGED <<route, apiKey, request, respText, fixedJson, parsedResult, retryAttempted,
                   sent, received>>
    /\ UNCHANGED <<evars, frames, pvars>>

\* a mutant of HRetryResponse: the error payload carries the text cleanAndParse
\* tried to parse instead of the raw text
HRetryResponseCleanedRaw ==
    /\ hpc = "await2"
    /\ \E t \in Responses :
          /\ received' = Append(received, t)
          /\ respText' = t
          /\ fixedJson' = ParserInput(route, t)
          /\ IF JsonParses(ParserInput(route, t))
             THEN /\ parsedResult' = JsonValue(ParserInput(route, t))
                  /\ reply' = Append(reply, SuccessReply(parsedResult'))
             ELSE /\ parsedResult' = parsedResult
                  /\ reply' = Append(reply, ParseFailedReply(route, ParserInput(route, t)))
          /\ hpc' = "done"
    /\ UNCHANGED <<route, apiKey, request, retryAttempted, sent>>
    /\ UNCHANGED <<evars, frames, pvars>>

\* part_001 lines 182-201: the retry response arrives and is parsed
HRetryResponse ==
    /\ hpc = "await2"
    /\ \E t \in Responses :
          /\ received' = Append(received, t)
          /\ respText' = t
          /\ fixedJson' = ParserInput(route, t)
          /\ IF JsonParses(ParserInput(route, t))
             THEN /\ parsedResult' = JsonValue(ParserInput(route, t))
                  /\ reply' = Append(reply, SuccessReply(parsedResult'))
             ELSE /\ parsedResult' = parsedResult
                  /\ reply' = Append(reply, ParseFailedReply(route, t))
          /\ hpc' = "done"
    /\ UNCHANGED <<route, apiKey, request, retryAttempted, sent>>
    /\ UNCHANGED <<evars, frames, pvars>>

\* a mutant of HRetryThrows: an exception of the retry call is not caught and
\* the request gets no reply
HRetryThrowsUnanswered ==
    /\ hpc = "await2"
    /\ hpc' = "done"
    /\ UNCHANGED <<route, apiKey, request, respText, fixedJson, parsedResult, retryAttempted,
                   sent, received, reply>>
    /\ UNCHANGED <<evars, frames, pvars>>

\* part_001 lines 182-184, 203-206: the retry call, or reading its text, throws
HRetryThrows ==
    /\ hpc = "await2"
    /\ reply' = Append(reply, FailedReply)
    /\ hpc' = "done"
    /\ UNCHANGED <<route, apiKey, request, respText, fixedJson, parsedResult, retryAttempted,
                   sent, received>>
    /\ UNCHANGED <<evars, frames, pvars>>

HNext == HEnter \/ HBody \/ HFirstResponse \/ HFirstThrows \/ HRetryResponse
            \/ HRetryThrows

HandlerSpec == HInit /\ [][HNext]_vars

(***************************************************************************)
(* Several invocations of extractJson, interleaved at the steps of the     *)
(* scan.  Every variable of the function is declared inside it (lines      *)
(* 11-20), so each invocation has its own frame.                           *)
(***************************************************************************)
\* the arguments of the interleaved invocations
ConcInputs ==
    {<<OpenBrace, CloseBrace>>,
     <<" ", "a", OpenBrace, CloseBrace>>,
     <<OpenBrace, OpenBrace, CloseBrace, CloseBrace>>,
     <<OpenBrace, Quote, CloseBrace, Quote, CloseBrace>>,
     <<CloseBrace, OpenBrace>>,
     <<OpenBrace, OpenBrace, CloseBrace>>,
     <<"a">>}

\* one step of an invocation on its own frame f (Begin, LoopStep, LoopExit,
\* Finish)
FrameStep(f) ==
    CASE f.pc = "start" ->
            LET js == Trim(f.text)
                first == IndexOf(js, OpenBrace)
            IN  [f EXCEPT !.jsonString = js, !.firstBrace = first,
                          !.i = IF first # -1 THEN first ELSE f.i,
                          !.pc = IF first # -1 THEN "loop" ELSE "done"]
      [] f.pc = "loop" /\ f.i < Len(f.jsonString) ->
            LET st == ScanStep([braceCount |-> f.braceCount, inString |-> f.inString,
                                escape |-> f.escape, endIndex |-> f.endIndex,
                                brk |-> FALSE],
                               CharAt(f.jsonString, f.i), f.i)
            IN  [f EXCEPT !.braceCount = st.braceCount, !.inString = st.inString,
                          !.escape = st.escape, !.endIndex = st.endIndex,
                          !.i = IF st.brk THEN f.i ELSE f.i + 1,
                          !.pc = IF st.brk THEN "after" ELSE "loop"]
      [] f.pc = "loop" /\ f.i >= Len(f.jsonString) ->
            [f EXCEPT !.pc = "after"]
      [] f.pc = "after" ->
            [f EXCEPT !.jsonString = FinishString(f.jsonString, f.firstBrace, f.endIndex),
                      !.pc = "done"]
      [] OTHER -> f

\* a mutant of CallsStep: braceCount is one variable of the module, shared by
\* all invocations
CallsStepSharedDepth(fs, p) ==
    LET g == FrameStep(fs[p])
    IN  [q \in Calls |-> IF q = p THEN g ELSE [fs[q] EXCEPT !.braceCount = g.braceCount]]

\* invocation p takes a step: its frame changes, no other frame does
CallsStep(fs, p) == [fs EXCEPT ![p] = FrameStep(fs[p])]

CInit ==
    /\ frames \in [Calls -> {FrameInit(t) : t \in ConcInputs}]
    /\ ExtractorIdle
    /\ HandlerIdle
    /\ PageIdle

CStep(p) ==
    /\ frames[p].pc # "done"
    /\ frames' = CallsStep(frames, p)
    /\ UNCHANGED <<evars, hvars, pvars>>

CNext == \E p \in Calls : CStep(p)

ConcSpec == CInit /\ [][CNext]_vars

(***************************************************************************)
(* The grading page (part_000 lines 92-176): its state, the edits of the    *)
(* user, and handleGrade with its two awaits.                               *)
(***************************************************************************)
\* the ids of the modules offered by the select
ModuleIds == {1, 2}

\* the texts the user may leave in the textarea
Essays == {<<>>, <<" ">>, <<"a">>, <<" ", "a", "\n">>}

\* !essayText.trim()
Blank(e) == Trim(e) = <<>>

\* the values response.json() resolves with: a grade, the body null, an error
\* payload with and without an error field
OkData == {"grade", "null"}
ErrorData == {"Module not found", "no error field", "null"}

\* line 167: data.error || 'Something went wrong'; reading a field of null throws
\* and line 171 stores the message of the TypeError
ErrorOf(data) ==
    IF data = "null" THEN "TypeError"
    ELSE IF data = "no error field" THEN "Something went wrong"
    ELSE data

PInit ==
    /\ selectedModuleId = 1
    /\ essayText = <<>>
    /\ isLoading = FALSE
    /\ result = "null"
    /\ error = "null"
    /\ responseOk = FALSE
    /\ gradePc = "idle"
    /\ calls = 0
    /\ ExtractorIdle
    /\ HandlerIdle
    /\ frames = FramesIdle

\* line 237: bind:value={essayText}
EditEssay ==
    /\ \E e \in Essays : essayText' = e
    /\ essayText' # essayText
    /\ UNCHANGED <<selectedModuleId, isLoading, result, error, responseOk, gradePc,
                   calls>>
    /\ UNCHANGED <<evars, hvars, frames>>

\* lines 189-193: bind:value={selectedModuleId} and the onchange of the select
SelectModule ==
    /\ \E m \in ModuleIds : selectedModuleId' = m
    /\ selectedModuleId' # selectedModuleId
    /\ result' = "null"
    /\ UNCHANGED <<essayText, isLoading, error, responseOk, gradePc, calls>>
    /\ UNCHANGED <<evars, hvars, frames>>

\* lines 144-151: handleGrade is called and runs up to the await of fetch.  The
\* button that calls it is disabled while isLoading (line 246); it is disabled
\* for a blank essay as well, a case the model lets through to line 145.
HandleGrade ==
    /\ ~isLoading
    /\ calls < MaxClicks
    /\ calls' = calls + 1
    /\ IF Blank(essayText)
       THEN UNCHANGED <<isLoading, result, error, gradePc>>
       ELSE /\ isLoading' = TRUE
            /\ result' = "null"
            /\ error' = "null"
            /\ gradePc' = "fetch"
    /\ UNCHANGED <<selectedModuleId, essayText, responseOk>>
    /\ UNCHANGED <<evars, hvars, frames>>

\* lines 151-162: fetch resolves with a response
FetchResolves ==
    /\ gradePc = "fetch"
    /\ \E ok \in BOOLEAN : responseOk' = ok
    /\ gradePc' = "json"
    /\ UNCHANGED <<selectedModuleId, essayText, isLoading, result, error, calls>>
    /\ UNCHANGED <<evars, hvars, frames>>

\* a mutant of FetchRejects: isLoading is reset in the try block and not in a
\* finally
FetchRejectsNoFinally ==
    /\ gradePc = "fetch"
    /\ error' = "Failed to fetch"
    /\ gradePc' = "idle"
    /\ UNCHANGED <<selectedModuleId, essayText, isLoading, result, responseOk, calls>>
    /\ UNCHANGED <<evars, hvars, frames>>

\* lines 151, 170-175: fetch rejects
FetchRejects ==
    /\ gradePc = "fetch"
    /\ error' = "Failed to fetch"
    /\ isLoading' = FALSE
    /\ gradePc' = "idle"
    /\ UNCHANGED <<selectedModuleId, essayText, result, responseOk, calls>>
    /\ UNCHANGED <<evars, hvars, frames>>

\* lines 162-175: response.json() resolves with data
JsonResolves ==
    /\ gradePc = "json"
    /\ \E data \in (IF responseOk THEN OkData ELSE ErrorData) :
          IF responseOk
          THEN /\ result' = data
               /\ error' = error
          ELSE /\ error' = ErrorOf(data)
               /\ result' = result
    /\ isLoading' = FALSE
    /\ gradePc' = "idle"
    /\ UNCHANGED <<selectedModuleId, essayText, responseOk, calls>>
    /\ UNCHANGED <<evars, hvars, frames>>

\* lines 162, 170-175: response.json() rejects (the body is not JSON)
JsonRejects ==
    /\ gradePc = "json"
    /\ error' = "SyntaxError"
    /\ isLoading' = FALSE
    /\ gradePc' = "idle"
    /\ UNCHANGED <<selectedModuleId, essayText, result, responseOk, calls>>
    /\ UNCHANGED <<evars, hvars, frames>>

\* the awaited promise settles
Settles == FetchResolves \/ FetchRejects \/ JsonResolves \/ JsonRejects

PNext == EditEssay \/ SelectModule \/ HandleGrade \/ FetchResolves \/ FetchRejects
            \/ JsonResolves \/ JsonRejects

\* every awaited promise settles in the end
PageSpec == PInit /\ [][PNext]_vars /\ WF_vars(Settles)

\* the step machine computes the function
StepsAgree == pc = "done" => jsonString = ExtractJson(text)

(***************************************************************************)
(* Notions the properties are stated with.                                 *)
(***************************************************************************)
AllWhite(s) == \A k \in 1..Len(s) : s[k] \in WhiteSpace

\* r is t without its leading and trailing whitespace, nothing else changed
IsTrimOf(r, t) ==
    /\ r # <<>> => (r[1] \notin WhiteSpace /\ r[Len(r)] \notin WhiteSpace)
    /\ \E a \in 0..Len(t) :
          /\ a + Len(r) <= Len(t)
          /\ AllWhite(SubSeq(t, 1, a))
          /\ SubSeq(t, a + 1, a + Len(r)) = r
          /\ AllWhite(SubSeq(t, a + Len(r) + 1, Len(t)))

Has(s, c) == \E k \in 1..Len(s) : s[k] = c

\* the characters of s at the 0-based indices a .. b, both inclusive
Slice(s, a, b) == [k \in 1..(b - a + 1) |-> s[a + k]]

\* s is a balanced object for the scan: scanned from its first opening brace,
\* the depth returns to zero on its final character
Balanced(s) ==
    LET fb == IndexOf(s, OpenBrace)
    IN  /\ fb # -1
        /\ ScanFrom(s, fb, ScanInit).endIndex = Len(s) - 1

WellFormedStrings == {x.s : x \in JsonObjects}

TookFallback == branch \in {"fallback", "nolast"}

(***************************************************************************)
(* Properties.                                                             *)
(***************************************************************************)

\* C1: a well-formed JSON object between brace-free prose is returned exactly.
C1_EmbeddedObjectReturned ==
    (pc = "done" /\ kind = "embedded") => jsonString = obj.s

\* C2: a well-formed JSON object whose string values hold an escaped quote is
\* returned exactly (the character after a backslash is skipped by the scan).
C2_EscapedQuoteObjectReturned ==
    (pc = "done" /\ kind = "embedded" /\ obj.esc) => jsonString = obj.s

\* C3: a well-formed JSON object whose string values hold literal braces is
\* returned exactly.
C3_BraceInStringObjectReturned ==
    (pc = "done" /\ kind = "embedded" /\ obj.brace) => jsonString = obj.s

\* C4: when the scan finds the depth back at zero, the output ends at the first
\* such position: the scan never runs on past a zero depth, the output is the
\* text from the first opening brace through that position, and the last-brace
\* fallback is not used.
C4_EndsAtFirstZero ==
    /\ (pc = "loop" /\ i > firstBrace) => (braceCount >= 1 /\ endIndex = -1)
    /\ (pc \in {"after", "done"} /\ endIndex # -1) =>
          (i = endIndex /\ braceCount = 0)
    /\ (pc = "done" /\ endIndex # -1) =>
          /\ jsonString = Slice(Trim(text), firstBrace, endIndex)
          /\ branch = "complete"

\* C4 witness: a complete object was found and text with a stray brace follows it.
C4_Witness ==
    /\ pc = "done"
    /\ endIndex # -1
    /\ endIndex + 1 < Len(Trim(text))
    /\ \E k \in (endIndex + 2)..Len(Trim(text)) :
          Trim(text)[k] \in {OpenBrace, CloseBrace}

\* C5: an input without an opening brace is returned trimmed, otherwise unchanged.
C5_NoBraceTrimmed ==
    (pc = "done" /\ ~Has(text, OpenBrace)) => IsTrimOf(jsonString, text)

\* C5 witness: a brace-free input with whitespace on both sides of its content.
C5_Witness ==
    /\ pc = "done"
    /\ ~Has(text, OpenBrace)
    /\ Len(text) >= 3
    /\ text[1] \in WhiteSpace
    /\ text[Len(text)] \in WhiteSpace
    /\ jsonString # <<>>
    /\ branch = "nobrace"

\* C6: in the fallback with a closing brace in the text, the output starts at the
\* first opening brace and ends at the last closing brace, wherever that one lies.
C6_FallbackFirstToLastBrace ==
    (pc = "done" /\ branch = "fallback") =>
        /\ jsonString # <<>>
        /\ jsonString[1] = OpenBrace
        /\ jsonString[Len(jsonString)] = CloseBrace
        /\ jsonString = Slice(Trim(text), IndexOf(Trim(text), OpenBrace),
                              LastIndexOf(Trim(text), CloseBrace))

C8_FallbackNeverBalanced ==
    (pc = "done" /\ TookFallback) =>
        /\ ~Balanced(jsonString)
        /\ kind = "truncated" => jsonString \notin WellFormedStrings

\* C8 witness: a truncated response took the fallback and was cut at its last
\* closing brace.
C8_Witness ==
    /\ pc = "done"
    /\ kind = "truncated"
    /\ branch = "fallback"
    /\ Len(jsonString) < Len(text)

\* C9: extraction applied to an output that is a balanced object returns it
\* unchanged.
C9_IdempotentOnBalanced ==
    (pc = "done" /\ Balanced(jsonString)) => ExtractJson(jsonString) = jsonString

\* C9 witness: a balanced object was extracted from a longer input.
C9_Witness ==
    /\ pc = "done"
    /\ Balanced(jsonString)
    /\ Len(jsonString) < Len(text)

\* C10: a well-formed JSON object with a nested object or array as a field value
\* is returned in full.
C10_NestedObjectReturned ==
    (pc = "done" /\ kind = "embedded" /\ obj.nested) => jsonString = obj.s

\* the number of steps the call can still take, at most
Rank ==
    CASE pc = "start" -> Len(text) + 3
      [] pc = "loop"  -> (Len(jsonString) - i) + 2
      [] pc = "after" -> 1
      [] OTHER        -> 0

\* every character the inputs are built from
Chars == RawAlphabet \cup WhiteSpace
            \cup {"k", "j", "1", ":", ",", "[", "]", Backtick, "s", "o", "n"}

IsString(s) == s \in Seq(Chars)

\* C11: for every input, the empty one included, extractJson terminates and
\* returns a string: every step lowers a natural-number bound on the steps that
\* remain, a step is possible until the call has returned, and what is returned
\* is a string.
C11_Terminates ==
    /\ [][Rank' < Rank]_vars
    /\ [](Rank >= 0)
    /\ [](pc # "done" => ENABLED Next)
    /\ [](pc = "done" => IsString(jsonString))

\* C11 witness: the call returned after the scan ran to the end of a non-empty
\* input without finding a complete object.
C11_Witness ==
    /\ pc = "done"
    /\ kind = "raw"
    /\ endIndex = -1
    /\ firstBrace # -1
    /\ i = Len(Trim(text))
    /\ i >= 3

\* C12: for a response that is a JSON object in a markdown fence, with or
\* without whitespace around the fence, the text handed to the JSON parser is
\* the object without the fence markers, both by the brace scan and by
\* cleanAndParse.
C12_FenceRemoved ==
    (pc = "done" /\ kind = "fenced") =>
        /\ jsonString = obj.s
        /\ Trim(CleanFence(text)) = obj.s

\* the k-th response the model gave parsed in the handler
Parsed(k) == JsonParses(ParserInput(route, received[k]))

(***************************************************************************)
(* C13: in the handler with the retry, a first response that fails to parse *)
(* triggers exactly one retry message, sent only after that response was    *)
(* received and failed to parse; a request never sends more than two        *)
(* messages, and a first response that parses is followed by no retry.      *)
(***************************************************************************)
C13_OneRetryAfterFailure ==
    /\ sent <= 2
    /\ Len(received) <= sent
    /\ sent <= Len(received) + 1
    /\ retryAttempted <=> (sent = 2)
    /\ (sent = 2) => (Len(received) >= 1 /\ ~Parsed(1))
    /\ (Len(received) >= 1 /\ Parsed(1)) => (sent = 1 /\ hpc = "done")
    /\ (route = "retry" /\ Len(received) >= 1 /\ ~Parsed(1)) => sent = 2

C13_Witness ==
    /\ route = "retry"
    /\ hpc = "done"
    /\ sent = 2
    /\ Len(received) = 2
    /\ ~Parsed(1)
    /\ Parsed(2)

(***************************************************************************)
(* C14: when the first and the retry response both fail to parse, the       *)
(* handler answers 500 with the failure reason and the raw text of the      *)
(* retry response; when the retry response parses, its parsed object is the *)
(* success response.  The handler without retry answers 500 with the raw    *)
(* text of its only response.                                               *)
(***************************************************************************)
C14_RawTextInError ==
    /\ (hpc = "done" /\ Len(received) = 2) =>
          IF Parsed(2)
          THEN reply = <<[status |-> 200, body |-> JsonValue(CleanFence(received[2]))]>>
          ELSE reply = <<[status |-> 500, error |-> "Failed to parse grading result",
                          details |-> "parse error", rawResponse |-> received[2],
                          retryAttempted |-> TRUE]>>
    /\ (hpc = "done" /\ route = "first" /\ Len(received) = 1 /\ Len(reply) = 1
            /\ reply[1].status = 500 /\ reply[1].error # "Failed to grade essay") =>
          reply = <<[status |-> 500, error |-> "Failed to parse grading result",
                     details |-> "parse error", rawResponse |-> received[1]]>>

C14_Witness ==
    /\ hpc = "done"
    /\ Len(received) = 2
    /\ ~Parsed(2)
    /\ CleanFence(received[2]) # received[2]
    /\ received[2] # received[1]
    /\ reply[1].rawResponse = received[2]

(***************************************************************************)
(* C15: extraction is stateless: when several invocations of extractJson    *)
(* are interleaved at arbitrary scan steps, each returns what it returns    *)
(* when run alone on its input, and a step of one invocation leaves the     *)
(* variables of every other invocation as they were.                        *)
(***************************************************************************)
C15_InterleavedAsAlone ==
    /\ [](\A p \in Calls :
            frames[p].pc = "done" => frames[p].jsonString = ExtractJson(frames[p].text))
    /\ [][\E p \in Calls : \A q \in Calls \ {p} : frames'[q] = frames[q]]_vars

\* two invocations are in the middle of their scans, at different depths
C15_Witness ==
    /\ frames[1].text = <<OpenBrace, OpenBrace, CloseBrace, CloseBrace>>
    /\ frames[1].pc = "loop"
    /\ frames[1].braceCount = 2
    /\ frames[2].text = <<OpenBrace, Quote, CloseBrace, Quote, CloseBrace>>
    /\ frames[2].pc = "loop"
    /\ frames[2].inString
    /\ frames[2].braceCount = 1

(***************************************************************************)
(* C16: the output of extractJson is a contiguous substring of the trimmed  *)
(* input, and when the input contains an opening brace the output begins    *)
(* with the first opening brace of the input.                               *)
(***************************************************************************)
C16_ContiguousFromFirstBrace ==
    pc = "done" =>
        LET t == Trim(text)
            first == IndexOf(t, OpenBrace)
        IN  /\ \E a \in 0..Len(t) : \E b \in a..Len(t) : jsonString = SubSeq(t, a + 1, b)
            /\ Has(text, OpenBrace) =>
                  \E b \in (first + 1)..Len(t) : jsonString = SubSeq(t, first + 1, b)

\* the repair the first handler is meant to make: a scan that knows escapes
\* replaces the line breaks inside string values and nothing else
RECURSIVE EscapeInStrings(_, _, _)
EscapeInStrings(s, inStr, esc) ==
    IF s = <<>> THEN <<>>
    ELSE LET c == Head(s)
             r == Tail(s)
         IN  IF ~inStr THEN <<c>> \o EscapeInStrings(r, c = Quote, FALSE)
             ELSE IF esc THEN <<c>> \o EscapeInStrings(r, TRUE, FALSE)
             ELSE IF c = Backslash THEN <<c>> \o EscapeInStrings(r, TRUE, TRUE)
             ELSE IF c = Quote THEN <<c>> \o EscapeInStrings(r, FALSE, FALSE)
             ELSE IF c = "\n" THEN <<Backslash, "n">> \o EscapeInStrings(r, TRUE, FALSE)
             ELSE IF c = "\r" THEN <<Backslash, "r">> \o EscapeInStrings(r, TRUE, FALSE)
             ELSE <<c>> \o EscapeInStrings(r, TRUE, FALSE)

(***************************************************************************)
(* C17: in the first route handler the text handed to the parser is the     *)
(* candidate with every literal newline and carriage return inside a string *)
(* value replaced by its two-character escape and every other character     *)
(* unchanged, also when the string value contains escaped quotes.           *)
(***************************************************************************)
C17_LineBreaksEscaped ==
    (route = "first" /\ Len(received) >= 1) =>
        fixedJson = EscapeInStrings(FirstRouteCandidate(received[1]), FALSE, FALSE)

(***************************************************************************)
(* C18: a request is answered with a success response only if the text of   *)
(* the last model response it received parsed as JSON; on every other path  *)
(* (missing key, unknown module, an exception of the first or of the retry  *)
(* model call, a failed parse that is not retried or is retried in vain)    *)
(* it gets exactly one error response, and no path leaves it unanswered.    *)
(***************************************************************************)
C18_AnsweredOnce ==
    /\ Len(reply) <= 1
    /\ (hpc = "done") <=> (Len(reply) = 1)
    /\ (hpc # "done") => ENABLED HNext
    /\ (Len(reply) = 1 /\ reply[1].status = 200) =>
          /\ Len(received) = sent
          /\ sent >= 1
          /\ Parsed(sent)
          /\ reply[1].body = JsonValue(ParserInput(route, received[sent]))
    /\ (hpc = "done" /\ ~(sent >= 1 /\ Len(received) = sent /\ Parsed(sent))) =>
          /\ reply[1].status \in {404, 500}
          /\ reply[1].error \in {"Missing GOOGLE_API_KEY", "Module not found",
                                 "Failed to grade essay",
                                 "Failed to parse grading result"}

\* the retry call threw and the request was answered with the error
C18_Witness ==
    /\ hpc = "done"
    /\ sent = 2
    /\ Len(received) = 1
    /\ reply = <<[status |-> 500, error |-> "Failed to grade essay",
                  details |-> "exception"]>>

(***************************************************************************)
(* C19: a message is sent to the model only if the API key is configured    *)
(* and the moduleId of the request matches a known module; a missing key is *)
(* answered 500 and an unknown module 404, both without any model call.     *)
(***************************************************************************)
C19_GuardsBeforeModelCall ==
    /\ sent >= 1 => (apiKey /\ request.valid /\ request.moduleKnown)
    /\ (hpc = "done" /\ ~apiKey) =>
          (reply = <<[status |-> 500, error |-> "Missing GOOGLE_API_KEY"]>> /\ sent = 0)
    /\ (hpc = "done" /\ apiKey /\ request.valid /\ ~request.moduleKnown) =>
          (reply = <<[status |-> 404, error |-> "Module not found"]>> /\ sent = 0)

(***************************************************************************)
(* C20: at every step of the scan the depth counter is never negative and   *)
(* is at least 1 once the first opening brace has been processed; it        *)
(* returns to 0 only in the iteration that ends the scan.                   *)
(***************************************************************************)
C20_DepthAtLeastOne ==
    /\ [](braceCount >= 0)
    /\ []((pc = "loop" /\ i > firstBrace) => braceCount >= 1)
    /\ []((firstBrace # -1 /\ pc \in {"after", "done"} /\ braceCount = 0) =>
             (endIndex = i /\ branch \in {"none", "complete"}))
    /\ [][(braceCount # 0 /\ braceCount' = 0) =>
             (pc = "loop" /\ pc' = "after" /\ endIndex' = i
              /\ CharAt(jsonString, i) = <<CloseBrace>>)]_vars

\* a scan went to depth 2, came back to depth 0 and ended there
C20_Witness ==
    /\ pc = "after"
    /\ braceCount = 0
    /\ endIndex = i
    /\ \E k \in (firstBrace + 1)..(i - 1) :
          ScanFrom(SubSeq(jsonString, 1, k + 1), firstBrace, ScanInit).braceCount = 2

(***************************************************************************)
(* C21: every call of handleGrade with a non-blank essay ends with          *)
(* isLoading false, whether the request succeeded, returned an error status *)
(* or threw; after it ends at most one of result and error is set; a call   *)
(* with a blank essay changes no state of the page.                         *)
(***************************************************************************)
C21_LoadingEnds ==
    /\ [](isLoading <=> (gradePc # "idle"))
    /\ isLoading ~> ~isLoading
    /\ [](~(result # "null" /\ error # "null"))
    /\ [][(calls' # calls /\ Blank(essayText)) =>
             UNCHANGED <<selectedModuleId, essayText, isLoading, result, error,
                         responseOk, gradePc>>]_vars

\* a call failed with an error status, the essay was then emptied and the
\* button's handler called again, and the error of the failed call is still shown
C21_Witness ==
    /\ calls = 2
    /\ gradePc = "idle"
    /\ ~isLoading
    /\ Blank(essayText)
    /\ ~responseOk
    /\ error = "Something went wrong"
    /\ result = "null"

====
